---- MODULE Spec2Model ----
(***************************************************************************)
(* A model of example.ts: the Logged and the Maybe monad demonstrations.   *)
(*                                                                         *)
(* JavaScript values are tagged records.  A Logged<T> container is an      *)
(* object: it lives in `heap` and is named by a reference, so that an      *)
(* in-place change of a container is something the model can express.      *)
(* A Maybe<T> is a bare value, `undefined` being the absent marker.        *)
(* Every invocation of a step function is appended to `calls`.             *)
(*                                                                         *)
(* A function of the program is an operator that takes the memory          *)
(* [heap, calls] it runs in and returns the memory it leaves together      *)
(* with its return value: [heap, calls, ret].                              *)
(***************************************************************************)
EXTENDS Integers, Sequences, FiniteSets, TLC

VARIABLES
    pc,     \* the statement the script is at
    heap,   \* the Logged objects allocated so far, in allocation order
    calls,  \* the step functions invoked so far: <<[fn, arg], ...>>
    v,      \* the naked initial value of the demonstration
    fns,    \* the ordered list of step functions of the demonstration
    i,      \* reduce: the number of list elements already folded
    acc,    \* reduce: the accumulator (loggedX / maybeX)
    y,      \* const y  (nested bindLogged calls)
    y2,     \* const y2 (reduce over bindLogged)
    z,      \* const z  (nested bindMaybe calls)
    z2      \* const z2 (reduce over bindMaybe)

vars == <<pc, heap, calls, v, fns, i, acc, y, y2, z, z2>>

---------------------------------------------------------------------------
(* Bounds of the model *)

\* the longest list of step functions handed to a chain
MaxSteps == 2

\* the largest magnitude of a number that two further steps are tried on, so
\* that its fourth power stays within 32-bit integers
MaxOperand == 200

---------------------------------------------------------------------------
(* JavaScript values *)

\* the value `undefined`: the absent marker of Maybe<T>
undefined == [t |-> "undefined"]

\* a const that its statement has not initialised yet
Unset == [t |-> "unset"]

Bool(b) == [t |-> "bool", b |-> b]

Str(s) == [t |-> "str", s |-> s]

\* a reference to the object heap[k]
Ref(k) == [t |-> "ref", ref |-> k]

Abs(a) == IF a < 0 THEN -a ELSE a

RECURSIVE Gcd(_, _)
Gcd(a, b) == IF b = 0 THEN a ELSE Gcd(b, a % b)

\* NaN
NaN == [t |-> "nan"]

\* Infinity (sign 1) and -Infinity (sign -1)
Inf(sign) == [t |-> "inf", sign |-> sign]

Sign(a) == IF a < 0 THEN -1 ELSE IF a = 0 THEN 0 ELSE 1

\* a finite number, held exactly as the fraction n/d in lowest terms, d > 0
Num(n, d) ==
    LET g == Gcd(Abs(n), Abs(d))
    IN [t |-> "num", n |-> Sign(d) * (n \div g), d |-> Abs(d) \div g]

Int2Num(n) == Num(n, 1)

IsNum(a) == a.t = "num"

\* ToNumber: what an arithmetic operator makes of its operand.  The only
\* strings of the model are "" and strings that are not numerals.
ToNumber(a) ==
    CASE a.t \in {"num", "nan", "inf"} -> a
      [] a.t = "bool" -> IF a.b THEN Int2Num(1) ELSE Int2Num(0)
      [] a.t = "str" -> IF a.s = "" THEN Int2Num(0) ELSE NaN
      [] OTHER -> NaN

\* the sign of a number that is not NaN
SignOf(a) == IF a.t = "inf" THEN a.sign ELSE Sign(a.n)

\* a * b
Mul(a, b) ==
    LET p == ToNumber(a)
        q == ToNumber(b)
    IN CASE p.t = "nan" \/ q.t = "nan" -> NaN
         [] p.t = "num" /\ q.t = "num" -> Num(p.n * q.n, p.d * q.d)
         [] OTHER -> IF SignOf(p) * SignOf(q) = 0 THEN NaN
                     ELSE Inf(SignOf(p) * SignOf(q))

\* a / b
Quot(a, b) ==
    LET p == ToNumber(a)
        q == ToNumber(b)
    IN CASE p.t = "nan" \/ q.t = "nan" -> NaN
         [] p.t = "num" /\ q.t = "num" ->
              IF q.n # 0 THEN Num(p.n * q.d, p.d * q.n)
              ELSE IF p.n = 0 THEN NaN ELSE Inf(Sign(p.n))
         [] p.t = "inf" /\ q.t = "inf" -> NaN
         [] p.t = "inf" -> Inf(IF SignOf(q) < 0 THEN -p.sign ELSE p.sign)
         [] OTHER -> Int2Num(0)

Digit == <<"0", "1", "2", "3", "4", "5", "6", "7", "8", "9">>

RECURSIVE NatToString(_)
NatToString(n) ==
    IF n < 10 THEN Digit[n + 1]
    ELSE NatToString(n \div 10) \o Digit[(n % 10) + 1]

\* `${a}` of a template literal, for a number a that is integral or not finite
NumberToString(a) ==
    CASE a.t = "nan" -> "NaN"
      [] a.t = "inf" -> IF a.sign < 0 THEN "-Infinity" ELSE "Infinity"
      [] OTHER -> IF a.n < 0 THEN "-" \o NatToString(-a.n) ELSE NatToString(a.n)

\* a + b for a number b: concatenation when a is a string, else addition
Add(a, b) ==
    IF a.t = "str" THEN Str(a.s \o NumberToString(b))
    ELSE LET p == ToNumber(a)
         IN CASE p.t = "nan" \/ b.t = "nan" -> NaN
              [] p.t = "num" /\ b.t = "num" -> Num(p.n * b.d + b.n * p.d, p.d * b.d)
              [] p.t = "inf" /\ b.t = "inf" -> IF p.sign = b.sign THEN p ELSE NaN
              [] p.t = "inf" -> p
              [] OTHER -> b

\* the memory a function leaves, without its return value
Mem(s) == [heap |-> s.heap, calls |-> s.calls]

\* `return val` in the memory s
Ret(s, val) == [heap |-> s.heap, calls |-> s.calls, ret |-> val]

\* the memory s after fn has been invoked on arg
Invoked(s, fn, arg) ==
    [heap |-> s.heap, calls |-> Append(s.calls, [fn |-> fn, arg |-> arg])]

\* an object literal { value, logs }: a fresh object
NewLogged(s, value, logs) ==
    [heap |-> Append(s.heap, [value |-> value, logs |-> logs]),
     calls |-> s.calls,
     ret |-> Ref(Len(s.heap) + 1)]

\* the object a reference names
Deref(s, r) == s.heap[r.ref]

---------------------------------------------------------------------------
(* The Logged monad *)

\* returnLogged that hands back a value that is a container already
returnLoggedFlat(s, value) ==
    IF value.t = "ref" THEN Ret(s, value) ELSE NewLogged(s, value, <<>>)

returnLogged(s, value) == NewLogged(s, value, <<>>)

square(s, x) == NewLogged(s, Mul(x, x), <<"squared " \o NumberToString(x)>>)

\* double that logs its result
doubleLogsOutput(s, x) ==
    NewLogged(s, Mul(x, Int2Num(2)),
              <<"doubled " \o NumberToString(Mul(x, Int2Num(2)))>>)

double(s, x) == NewLogged(s, Mul(x, Int2Num(2)), <<"doubled " \o NumberToString(x)>>)

\* stand-ins for an arbitrary fn: (value: T) => Logged<T>, one per log shape
stepA(s, x) == NewLogged(s, x, <<"a">>)

stepB(s, x) == NewLogged(s, x, <<"b">>)

stepQuiet(s, x) == NewLogged(s, x, <<>>)

stepTwo(s, x) == NewLogged(s, x, <<"c", "d">>)

\* the step function  x => bindLogged(f(x), g)
Compose(f, g) == [op |-> "compose", f |-> f, g |-> g]

RECURSIVE CallLogged(_, _, _)

\* bindLogged with the two logs concatenated the other way round
bindLoggedSwapped(s, wrapped, fn) ==
    LET next == CallLogged(s, fn, Deref(s, wrapped).value)
    IN NewLogged(Mem(next),
                 Deref(next, next.ret).value,
                 Deref(next, next.ret).logs \o Deref(next, wrapped).logs)

\* bindLogged that pushes the new entries onto wrapped.logs in place and
\* hands that array to the container it returns
bindLoggedPush(s, wrapped, fn) ==
    LET next == CallLogged(s, fn, Deref(s, wrapped).value)
        logs == Deref(next, wrapped).logs \o Deref(next, next.ret).logs
        pushed == [heap |-> [next.heap EXCEPT ![wrapped.ref].logs = logs],
                   calls |-> next.calls]
    IN NewLogged(pushed, Deref(next, next.ret).value, logs)

\* bindLogged that keeps only the first entry a step logs
bindLoggedFirstEntry(s, wrapped, fn) ==
    LET next == CallLogged(s, fn, Deref(s, wrapped).value)
        logs == Deref(next, next.ret).logs
    IN NewLogged(Mem(next),
                 Deref(next, next.ret).value,
                 Deref(next, wrapped).logs
                    \o SubSeq(logs, 1, IF Len(logs) > 1 THEN 1 ELSE Len(logs)))

\* bindLogged: fn applied to wrapped.value, then a fresh object holding fn's
\* value and wrapped.logs.concat(next.logs)
bindLogged(s, wrapped, fn) ==
    LET next == CallLogged(s, fn, Deref(s, wrapped).value)
    IN NewLogged(Mem(next),
                 Deref(next, next.ret).value,
                 Deref(next, wrapped).logs \o Deref(next, next.ret).logs)

\* fn(x) for a step function of the Logged monad
CallLogged(s, fn, x) ==
    LET s1 == Invoked(s, fn, x)
    IN CASE fn.op = "square" -> square(s1, x)
         [] fn.op = "double" -> double(s1, x)
         [] fn.op = "stepA" -> stepA(s1, x)
         [] fn.op = "stepB" -> stepB(s1, x)
         [] fn.op = "stepQuiet" -> stepQuiet(s1, x)
         [] fn.op = "stepTwo" -> stepTwo(s1, x)
         [] fn.op = "compose" ->
              LET inner == CallLogged(s1, fn.f, x)
              IN bindLogged(Mem(inner), inner.ret, fn.g)

Front(list) == SubSeq(list, 1, Len(list) - 1)

Last(list) == list[Len(list)]

\* bindLogged(...bindLogged(bindLogged(returnLogged(value), f1), f2)..., fn):
\* the nested calls of `y`, for any list of steps
RECURSIVE NestedLogged(_, _, _)
NestedLogged(s, value, list) ==
    IF list = <<>> THEN returnLogged(s, value)
    ELSE LET inner == NestedLogged(s, value, Front(list))
         IN bindLogged(Mem(inner), inner.ret, Last(list))

\* the element Array.prototype.reduceRight hands to its callback in round k + 1
ReduceElementRight(list, k) == list[Len(list) - k]

\* the element Array.prototype.reduce hands to its callback in round k + 1
ReduceElement(list, k) == list[k + 1]

\* the callback (loggedX, fn) => bindLogged(loggedX, fn)
LoggedCallback(s, loggedX, fn) == bindLogged(s, loggedX, fn)

---------------------------------------------------------------------------
(* The Maybe monad *)

\* what a condition makes of a value
Truthy(a) ==
    CASE a.t = "num" -> a.n # 0
      [] a.t = "bool" -> a.b
      [] a.t = "str" -> a.s # ""
      [] a.t \in {"inf", "ref"} -> TRUE
      [] OTHER -> FALSE

\* returnMaybe written  value || undefined
returnMaybeFalsy(s, value) == IF Truthy(value) THEN Ret(s, value) ELSE Ret(s, undefined)

returnMaybe(s, value) == Ret(s, value)

\* divide that tests the dividend instead of the divisor
divideTestsDividend(s, divisor, x) ==
    IF x # Int2Num(0) THEN Ret(s, Quot(x, divisor)) ELSE Ret(s, undefined)

\* divide(divisor)(x)
divide(s, divisor, x) ==
    IF divisor # Int2Num(0) THEN Ret(s, Quot(x, divisor)) ELSE Ret(s, undefined)

whatever(s, x) == Ret(s, Add(x, Int2Num(42)))

\* stand-ins for an arbitrary fn: (value: T) => Maybe<T>
stepNothing(s, x) == Ret(s, undefined)

stepSame(s, x) == Ret(s, x)

\* fn(x) for a step function of the Maybe monad
CallMaybe(s, fn, x) ==
    LET s1 == Invoked(s, fn, x)
    IN CASE fn.op = "divide" -> divide(s1, fn.divisor, x)
         [] fn.op = "whatever" -> whatever(s1, x)
         [] fn.op = "stepNothing" -> stepNothing(s1, x)
         [] fn.op = "stepSame" -> stepSame(s1, x)

\* bindMaybe written  wrapped ? fn(wrapped) : undefined
bindMaybeFalsy(s, wrapped, fn) ==
    IF Truthy(wrapped) THEN CallMaybe(s, fn, wrapped) ELSE Ret(s, undefined)

\* bindMaybe without the short circuit
bindMaybeAlways(s, wrapped, fn) == CallMaybe(s, fn, wrapped)

bindMaybe(s, wrapped, fn) ==
    IF wrapped # undefined THEN CallMaybe(s, fn, wrapped) ELSE Ret(s, undefined)

\* bindMaybe(...bindMaybe(bindMaybe(returnMaybe(value), f1), f2)..., fn):
\* the nested calls of `z`, for any list of steps
RECURSIVE NestedMaybe(_, _, _)
NestedMaybe(s, value, list) ==
    IF list = <<>> THEN returnMaybe(s, value)
    ELSE LET inner == NestedMaybe(s, value, Front(list))
         IN bindMaybe(Mem(inner), inner.ret, Last(list))

\* the callback (maybeX, fn) => bindMaybe(maybeX, fn)
MaybeCallback(s, maybeX, fn) == bindMaybe(s, maybeX, fn)

---------------------------------------------------------------------------
(* The inputs the demonstrations are run on *)

\* lists over S of length at most n
RECURSIVE ListsUpTo(_, _)
ListsUpTo(S, n) ==
    IF n = 0 THEN {<<>>}
    ELSE LET shorter == ListsUpTo(S, n - 1)
         IN shorter \cup {Append(l, e) : l \in shorter, e \in S}

Op(name) == [op |-> name]

Divide(divisor) == [op |-> "divide", divisor |-> divisor]

\* steps typed T => Logged<T> for every T
GenericLoggedSteps == {Op("stepA"), Op("stepB"), Op("stepQuiet"), Op("stepTwo")}

\* steps typed number => Logged<number>
NumberLoggedSteps == {Op("square"), Op("double")} \cup GenericLoggedSteps

LoggedNumbers == {Int2Num(5), Int2Num(0), Int2Num(-3), Int2Num(12)}

LoggedOthers == {Str("s")}

\* steps typed T => Maybe<T> for every T
GenericMaybeSteps == {Op("stepNothing"), Op("stepSame")}

Divisors == {Int2Num(0), Int2Num(5), Int2Num(-4)}

\* steps typed number => Maybe<number>
NumberMaybeSteps ==
    {Divide(d) : d \in Divisors} \cup {Op("whatever")} \cup GenericMaybeSteps

MaybeNumbers == {Int2Num(10), Int2Num(0), Int2Num(-42), Int2Num(7)}

\* payloads that are falsy, or not numbers
MaybeOthers == {Bool(FALSE), Str(""), Str("s")}

---------------------------------------------------------------------------
(* The script *)

Memory == [heap |-> heap, calls |-> calls]

Init ==
    /\ pc = "start"
    /\ heap = <<>>
    /\ calls = <<>>
    /\ v = Unset
    /\ fns = <<>>
    /\ i = 0
    /\ acc = Unset
    /\ y = Unset
    /\ y2 = Unset
    /\ z = Unset
    /\ z2 = Unset

\* the Logged demonstration, on an initial value and a list of steps
StartLogged ==
    /\ pc = "start"
    /\ \/ /\ v' \in LoggedNumbers
          /\ fns' \in ListsUpTo(NumberLoggedSteps, MaxSteps)
       \/ /\ v' \in LoggedOthers
          /\ fns' \in ListsUpTo(GenericLoggedSteps, MaxSteps)
    /\ pc' = "y"
    /\ UNCHANGED <<heap, calls, i, acc, y, y2, z, z2>>

\* const y = bindLogged(bindLogged(returnLogged(5), square), double)
EvalY ==
    /\ pc = "y"
    /\ LET r == NestedLogged(Memory, v, fns)
       IN /\ heap' = r.heap
          /\ calls' = r.calls
          /\ y' = r.ret
    /\ pc' = "y2"
    /\ UNCHANGED <<v, fns, i, acc, y2, z, z2>>

\* [square, double].reduce(..., returnLogged(5)): the initial accumulator
LoggedReduceStart ==
    /\ pc = "y2"
    /\ LET r == returnLogged(Memory, v)
       IN /\ heap' = r.heap
          /\ calls' = r.calls
          /\ acc' = r.ret
    /\ i' = 0
    /\ pc' = "y2loop"
    /\ UNCHANGED <<v, fns, y, y2, z, z2>>

\* one round of reduce: the callback on the accumulator and the next element
LoggedReduceStep ==
    /\ pc = "y2loop"
    /\ i < Len(fns)
    /\ LET r == LoggedCallback(Memory, acc, ReduceElement(fns, i))
       IN /\ heap' = r.heap
          /\ calls' = r.calls
          /\ acc' = r.ret
    /\ i' = i + 1
    /\ UNCHANGED <<pc, v, fns, y, y2, z, z2>>

\* reduce returns the accumulator: const y2 = ...
LoggedReduceEnd ==
    /\ pc = "y2loop"
    /\ i = Len(fns)
    /\ y2' = acc
    /\ pc' = "done"
    /\ UNCHANGED <<heap, calls, v, fns, i, acc, y, z, z2>>

\* the Maybe demonstration, on an initial value and a list of steps
StartMaybe ==
    /\ pc = "start"
    /\ \/ /\ v' \in MaybeNumbers
          /\ fns' \in ListsUpTo(NumberMaybeSteps, MaxSteps)
       \/ /\ v' \in MaybeOthers
          /\ fns' \in ListsUpTo(GenericMaybeSteps, MaxSteps)
    /\ pc' = "z"
    /\ UNCHANGED <<heap, calls, i, acc, y, y2, z, z2>>

\* const z = bindMaybe(bindMaybe(returnMaybe(10), divide(0)), whatever)
EvalZ ==
    /\ pc = "z"
    /\ LET r == NestedMaybe(Memory, v, fns)
       IN /\ heap' = r.heap
          /\ calls' = r.calls
          /\ z' = r.ret
    /\ pc' = "z2"
    /\ UNCHANGED <<v, fns, i, acc, y, y2, z2>>

\* [divide(0), whatever].reduce(..., returnMaybe(10)): the initial accumulator
MaybeReduceStart ==
    /\ pc = "z2"
    /\ LET r == returnMaybe(Memory, v)
       IN /\ heap' = r.heap
          /\ calls' = r.calls
          /\ acc' = r.ret
    /\ i' = 0
    /\ pc' = "z2loop"
    /\ UNCHANGED <<v, fns, y, y2, z, z2>>

\* one round of reduce: the callback on the accumulator and the next element
MaybeReduceStep ==
    /\ pc = "z2loop"
    /\ i < Len(fns)
    /\ LET r == MaybeCallback(Memory, acc, ReduceElement(fns, i))
       IN /\ heap' = r.heap
          /\ calls' = r.calls
          /\ acc' = r.ret
    /\ i' = i + 1
    /\ UNCHANGED <<pc, v, fns, y, y2, z, z2>>

\* reduce returns the accumulator: const z2 = ...
MaybeReduceEnd ==
    /\ pc = "z2loop"
    /\ i = Len(fns)
    /\ z2' = acc
    /\ pc' = "done"
    /\ UNCHANGED <<heap, calls, v, fns, i, acc, y, y2, z>>

Next ==
    \/ StartLogged
    \/ EvalY
    \/ LoggedReduceStart
    \/ LoggedReduceStep
    \/ LoggedReduceEnd
    \/ StartMaybe
    \/ EvalZ
    \/ MaybeReduceStart
    \/ MaybeReduceStep
    \/ MaybeReduceEnd

Spec == Init /\ [][Next]_vars

---------------------------------------------------------------------------
(* What the claims are stated with *)

\* the demonstration the script is running
InLogged == pc \in {"y", "y2", "y2loop"} \/ (pc = "done" /\ y # Unset)

InMaybe == pc \in {"z", "z2", "z2loop"} \/ (pc = "done" /\ z # Unset)

\* what a program can observe of a value: a container through its fields
RECURSIVE Observe(_, _)
Observe(s, val) ==
    IF val.t = "ref"
    THEN [value |-> Observe(s, Deref(s, val).value), logs |-> Deref(s, val).logs]
    ELSE val

\* the step functions whose parameter type admits the value
LoggedStepsFor(val) ==
    IF IsNum(val) THEN NumberLoggedSteps ELSE GenericLoggedSteps

MaybeStepsFor(val) ==
    IF IsNum(val) THEN NumberMaybeSteps ELSE GenericMaybeSteps

\* the containers of the heap
Containers == {Ref(k) : k \in 1..Len(heap)}

\* the containers of the heap that further steps are tried on
Operands ==
    {c \in Containers :
        IsNum(Deref(Memory, c).value) => Abs(Deref(Memory, c).value.n) <= MaxOperand}

IsPrefix(p, q) == Len(p) <= Len(q) /\ SubSeq(q, 1, Len(p)) = p

---------------------------------------------------------------------------
(* C1: bindLogged(c, f) invokes f exactly once, on c.value, and returns a  *)
(* container whose value is the one f produced and whose logs are c.logs   *)
(* followed by the logs f produced; steps logging ["a"] then ["b"] give    *)
(* exactly ["a", "b"].                                                     *)
C1_BindLoggedContract ==
    /\ \A c \in Operands : \A f \in LoggedStepsFor(Deref(Memory, c).value) :
          LET r == bindLogged(Memory, c, f)
              e == CallLogged(Memory, f, Deref(Memory, c).value)
          IN /\ r.calls = Append(calls, [fn |-> f, arg |-> Deref(Memory, c).value])
             /\ Deref(r, r.ret).value = Deref(e, e.ret).value
             /\ Deref(r, r.ret).logs = Deref(Memory, c).logs \o Deref(e, e.ret).logs
    /\ (pc = "done" /\ InLogged /\ fns = <<Op("stepA"), Op("stepB")>>) =>
          /\ Deref(Memory, y).logs = <<"a", "b">>
          /\ Deref(Memory, y2).logs = <<"a", "b">>

C1_Witness ==
    /\ pc = "y2loop"
    /\ i = 2
    /\ fns = <<Op("stepA"), Op("stepB")>>
    /\ Deref(Memory, acc).logs = <<"a", "b">>

---------------------------------------------------------------------------
(* The Maybe chain stated without bindMaybe: the value after the steps of  *)
(* a list, a step being applied only to a present value.                   *)

NoMemory == [heap |-> <<>>, calls |-> <<>>]

Prefix(list, n) == SubSeq(list, 1, n)

RECURSIVE Thread(_, _)
Thread(value, list) ==
    IF list = <<>> THEN value
    ELSE LET p == Thread(value, Front(list))
         IN IF p = undefined THEN undefined
            ELSE CallMaybe(NoMemory, Last(list), p).ret

\* the positions of a list whose step is handed a present value
Reached(value, list) ==
    {k \in 1..Len(list) : Thread(value, Prefix(list, k - 1)) # undefined}

\* the invocations of the first n steps of a list, in order
ExpectedCalls(value, list, n) ==
    [k \in 1..Cardinality(Reached(value, Prefix(list, n))) |->
        [fn |-> list[k], arg |-> Thread(value, Prefix(list, k - 1))]]

\* the positions at which the chain is absent; the least is the step that
\* first returned absent
AbsentFrom(value, list) ==
    {k \in 1..Len(list) : Thread(value, Prefix(list, k)) = undefined}

Least(S) == CHOOSE k \in S : \A m \in S : k <= m

(* C2: absorption.  If the step at position k is the first to return      *)
(* absent, the result of the chain is absent, by nested calls (z) and by   *)
(* reduce (z2); exactly the steps 1..k are invoked, once each and in       *)
(* order, and none after k; no step is ever called with the absent marker. *)
C2_Absorption ==
    InMaybe =>
       /\ \A j \in 1..Len(calls) : calls[j].arg # undefined
       /\ (pc \in {"z2", "z2loop", "done"} /\ AbsentFrom(v, fns) # {}) =>
             LET k == Least(AbsentFrom(v, fns))
                 nested == Prefix(calls, k)
                 folded == SubSeq(calls, k + 1, Len(calls))
             IN /\ z = undefined
                /\ Len(calls) >= k
                /\ nested = ExpectedCalls(v, fns, k)
                /\ \A j \in 1..k : nested[j].fn = fns[j]
                /\ pc = "z2" => folded = <<>>
                /\ pc = "z2loop" =>
                      /\ folded = ExpectedCalls(v, fns, IF i < k THEN i ELSE k)
                      /\ i >= k => acc = undefined
                /\ pc = "done" =>
                      /\ folded = ExpectedCalls(v, fns, k)
                      /\ z2 = undefined

C2_Witness ==
    /\ pc = "done"
    /\ InMaybe
    /\ fns = <<Divide(Int2Num(0)), Op("whatever")>>
    /\ v = Int2Num(10)
    /\ z = undefined
    /\ z2 = undefined
    /\ Len(calls) = 2

---------------------------------------------------------------------------
\* the present payloads at hand: those of the chain, and the falsy ones
Payloads ==
    ({v, acc, z, z2} \cup {Int2Num(0), Bool(FALSE), Str("")}) \ {undefined, Unset}

(* C3: the absent marker is not merely falsy.  For every present payload   *)
(* w, 0, false and "" included, bindMaybe(w, f) invokes f exactly once, on *)
(* w, and returns what f returned; the chain from 0 through divide(5) and  *)
(* whatever is not cut short and ends present.                             *)
C3_FalsyIsPresent ==
    InMaybe =>
       /\ \A w \in Payloads : \A f \in MaybeStepsFor(w) :
             LET r == bindMaybe(Memory, w, f)
                 e == CallMaybe(NoMemory, f, w)
             IN /\ r.ret = e.ret
                /\ r.calls = Append(calls, [fn |-> f, arg |-> w])
       /\ (pc = "done" /\ v = Int2Num(0)
             /\ fns = <<Divide(Int2Num(5)), Op("whatever")>>) =>
             /\ z = Int2Num(42)
             /\ z2 = Int2Num(42)
             /\ Len(calls) = 4

C3_Witness ==
    /\ pc = "done"
    /\ v = Int2Num(0)
    /\ fns = <<Divide(Int2Num(5)), Op("whatever")>>
    /\ z2 = Int2Num(42)
    /\ calls[3] = [fn |-> Divide(Int2Num(5)), arg |-> Int2Num(0)]
    /\ calls[4] = [fn |-> Op("whatever"), arg |-> Int2Num(0)]

---------------------------------------------------------------------------
---------------------------------------------------------------------------
(* C5: returnMaybe(v) is present and holds v, for every payload v, so that *)
(* bindMaybe(returnMaybe(v), f) always invokes f: the first round of the   *)
(* fold invokes the first step on v.                                       *)
C5_LiftIsPresent ==
    InMaybe =>
       LET r == returnMaybe(Memory, v)
       IN /\ r.ret = v
          /\ r.ret # undefined
          /\ \A f \in MaybeStepsFor(v) :
                bindMaybe(Mem(r), r.ret, f).calls = Append(calls, [fn |-> f, arg |-> v])
          /\ (pc = "z2loop" /\ i = 0) => acc = v
          /\ (pc = "z2loop" /\ i = 1) => calls[Len(calls)] = [fn |-> fns[1], arg |-> v]

C5_Witness ==
    /\ pc = "z2loop"
    /\ i = 1
    /\ v = Int2Num(0)
    /\ calls[Len(calls)] = [fn |-> fns[1], arg |-> v]

---------------------------------------------------------------------------
(* C6: bindLogged never mutates its input.  No step of the script changes  *)
(* an object that exists; the container a round of the fold returns is a   *)
(* fresh one whose logs extend those of the round's input; and after the   *)
(* nested calls the container returnLogged made is still v with no logs.   *)
C6_NoMutation ==
    /\ [][/\ Len(heap') >= Len(heap)
          /\ \A k \in 1..Len(heap) : heap'[k] = heap[k]
          /\ (pc = "y2loop" /\ pc' = "y2loop") =>
                /\ acc'.ref > Len(heap)
                /\ IsPrefix(Deref(Memory, acc).logs, heap'[acc'.ref].logs)]_vars
    /\ []((InLogged /\ pc # "y") => heap[1] = [value |-> v, logs |-> <<>>])

C6_Witness ==
    /\ pc = "y2loop"
    /\ i = 2
    /\ Len(Deref(Memory, acc).logs) >= 2
    /\ \E c \in Containers :
          /\ c.ref < acc.ref
          /\ Deref(Memory, c).logs # <<>>
          /\ Deref(Memory, c).logs # Deref(Memory, acc).logs
          /\ IsPrefix(Deref(Memory, c).logs, Deref(Memory, acc).logs)

---------------------------------------------------------------------------
(* C7: the safe-divide chain.  From a dividend x through divide(d) and     *)
(* whatever the result is absent when d = 0, whatever not being invoked,   *)
(* and is x/d + 42 when d is not 0: 10 and 0 give absent, 10 and 5 give 44.*)
C7_SafeDivide ==
    (/\ pc = "done"
     /\ InMaybe
     /\ IsNum(v)
     /\ Len(fns) = 2
     /\ fns[1].op = "divide"
     /\ fns[2] = Op("whatever")) =>
       LET x == v.n
           d == fns[1].divisor.n
       IN /\ d = 0 =>
                /\ z = undefined
                /\ z2 = undefined
                /\ \A j \in 1..Len(calls) : calls[j].fn # Op("whatever")
          /\ d # 0 =>
                /\ z # undefined
                /\ z.t = "num"
                /\ z.n * d = (x + 42 * d) * z.d
                /\ z2 = z
          /\ (x = 10 /\ d = 5) => z = [t |-> "num", n |-> 44, d |-> 1]

C7_Witness ==
    /\ pc = "done"
    /\ v = Int2Num(10)
    /\ fns = <<Divide(Int2Num(5)), Op("whatever")>>
    /\ z = Int2Num(44)
    /\ z2 = Int2Num(44)

---------------------------------------------------------------------------
(* C8: the Logged sample chain.  From v through square and double the      *)
(* value is 2*v*v and the logs are "squared v" then "doubled v*v", each    *)
(* entry naming the input of its step; 5 gives 50, "squared 5" and         *)
(* "doubled 25".                                                           *)
C8_SquareDouble ==
    (/\ pc = "done"
     /\ InLogged
     /\ fns = <<Op("square"), Op("double")>>) =>
       \A r \in {y, y2} :
          /\ Deref(Memory, r).value = [t |-> "num", n |-> 2 * v.n * v.n, d |-> 1]
          /\ Deref(Memory, r).logs =
                <<"squared " \o ToString(v.n), "doubled " \o ToString(v.n * v.n)>>
          /\ v.n = 5 =>
                /\ Deref(Memory, r).value.n = 50
                /\ Deref(Memory, r).logs = <<"squared 5", "doubled 25">>

C8_Witness ==
    /\ pc = "done"
    /\ v = Int2Num(5)
    /\ fns = <<Op("square"), Op("double")>>
    /\ Observe(Memory, y) =
          [value |-> Int2Num(50), logs |-> <<"squared 5", "doubled 25">>]

---------------------------------------------------------------------------
\* returnLogged(returnLogged(val)), as the program observes it
LiftedTwice(val) ==
    LET once == returnLogged(Memory, val)
        twice == returnLogged(Mem(once), once.ret)
    IN Observe(twice, twice.ret)

LiftedOnce(val) ==
    LET once == returnLogged(Memory, val)
    IN Observe(once, once.ret)

(* C9 as claimed: lift is idempotent for both monads, returnLogged of a    *)
(* returnLogged(v) being observably returnLogged(v), and returnMaybe of a  *)
(* returnMaybe(v) being returnMaybe(v).                                    *)
C9_LiftIdempotent ==
    /\ InLogged => LiftedTwice(v) = LiftedOnce(v)
    /\ InMaybe =>
          LET once == returnMaybe(Memory, v)
          IN returnMaybe(Mem(once), once.ret).ret = once.ret

(* C9 amended: returnMaybe of a returnMaybe(v) is returnMaybe(v), that is  *)
(* v; returnLogged of a returnLogged(v) is a container with an empty log   *)
(* whose value is the container returnLogged(v): two layers, not one.      *)
C9_LiftWrapsEachTime ==
    /\ InLogged =>
          /\ LiftedOnce(v) = [value |-> v, logs |-> <<>>]
          /\ LiftedTwice(v) = [value |-> LiftedOnce(v), logs |-> <<>>]
          /\ LiftedTwice(v) # LiftedOnce(v)
    /\ InMaybe =>
          LET once == returnMaybe(Memory, v)
          IN /\ once.ret = v
             /\ returnMaybe(Mem(once), once.ret).ret = once.ret

C9_Witness ==
    /\ pc = "y2loop"
    /\ i = 0
    /\ Observe(Memory, acc) = [value |-> v, logs |-> <<>>]
    /\ LiftedTwice(v) = [value |-> [value |-> v, logs |-> <<>>], logs |-> <<>>]

---------------------------------------------------------------------------
\* the containers the chain holds
ChainContainers == {c \in {y, y2, acc} : c.t = "ref"} \cap Operands

(* C10: associativity.  For a container m and steps f and g,               *)
(* bindLogged(bindLogged(m, f), g) has the value and the logs, in order,   *)
(* of bindLogged(m, x => bindLogged(f(x), g)).                             *)
C10_Associativity ==
    InLogged =>
       \A m \in ChainContainers :
          \A f, g \in LoggedStepsFor(Deref(Memory, m).value) :
             LET inner == bindLogged(Memory, m, f)
                 left == bindLogged(Mem(inner), inner.ret, g)
                 right == bindLogged(Memory, m, Compose(f, g))
             IN Observe(left, left.ret) = Observe(right, right.ret)

C10_Witness ==
    /\ pc = "done"
    /\ InLogged
    /\ Deref(Memory, y).logs # <<>>
    /\ LET inner == bindLogged(Memory, y, Op("stepTwo"))
           left == bindLogged(Mem(inner), inner.ret, Op("stepA"))
           right == bindLogged(Memory, y, Compose(Op("stepTwo"), Op("stepA")))
       IN /\ Deref(left, left.ret).logs = Deref(Memory, y).logs \o <<"c", "d", "a">>
          /\ Deref(right, right.ret).logs = Deref(left, left.ret).logs

====
